---- MODULE Spec2Model ----
(***************************************************************************)
(* prompt-generator.py: format_prompt (template rendering) and the click   *)
(* command main (input resolution, rendering, output).                     *)
(*                                                                         *)
(* Text is a sequence of tokens.  The tokens that matter to the code are   *)
(* separate: "{" and "}" (str.format), "\n" (line structure), " " (one     *)
(* indentation unit of four blanks, textwrap.dedent), the fences and the   *)
(* headings.  Runs of fixed template prose are one token each.             *)
(***************************************************************************)
EXTENDS Integers, Sequences, FiniteSets

VARIABLES
    feature_name,   \* FEATURE_NAME argument / first parameter of format_prompt
    spec_arg,       \* command-line value of --spec-file: Absent, Dash or a path
    context_arg,    \* command-line value of --context-file
    order,          \* which of the two options comes first on the command line
    help_arg,       \* --help is on the command line
    stdout_tty,     \* standard output is a terminal
    stderr_tty,     \* the error stream is a terminal
    fs,             \* the file system: path -> [kind, content]
    stdin_data,     \* what standard input delivers up to its first end-of-input
    stdin_more,     \* what a read after that end-of-input gets: nothing on a
                    \* pipe or a file, what is typed next on a terminal
    stdin_consumed, \* standard input was read to an end-of-input once
    spec_file,      \* parameter spec_file of main (file object or None)
    context_file,   \* parameter context_file of main
    spec,           \* local spec of main / parameter of format_prompt
    context,        \* local context of main / parameter of format_prompt
    prompt,         \* local prompt of main / value returned by format_prompt
    stdout,         \* text written to standard output
    stderr,         \* text written to the error stream
    exit_code,      \* process exit status, -1 while running
    events,         \* I/O operations performed so far, in order
    pc              \* position in the run

vars == <<feature_name, spec_arg, context_arg, order, help_arg,
          stdout_tty, stderr_tty, fs, stdin_data, stdin_more,
          stdin_consumed, spec_file, context_file, spec, context, prompt,
          stdout, stderr, exit_code, events, pc>>

-----------------------------------------------------------------------------
(* Bounds *)

MaxSpecLen == 3
MaxCtxLen == 1
MaxFileLen == 1

-----------------------------------------------------------------------------
(* Values *)

\* Python's None and a bound str value, kept as records of one shape.
None == [none |-> TRUE, val |-> <<>>]
Some(t) == [none |-> FALSE, val |-> t]

\* str(x) as str.format renders a replacement field's value
Str(x) == IF x.none THEN <<"None">> ELSE x.val

Texts(alphabet, n) == UNION {[1..k -> alphabet] : k \in 0..n}

Heading == "## Existing Context:"
SpecHeading == "## Project/Feature Specification:"
\* the markdown fence, three backquotes, is written [fence]
OpenFence == "[fence]markdown"
Fence == "[fence]"
TaskPath == "specs/tasks/"

\* tokens the rendered texts are drawn from: indentation, a line break,
\* braces, a field name, a fence and the context heading
Alphabet == {" ", "\n", "{", "}", "context", Fence, Heading}
SpecTexts == Texts(Alphabet, MaxSpecLen)
CtxTexts == Texts(Alphabet, MaxCtxLen)
FeatureNames == {<<"login-flow">>, <<"search", "-", "index">>}

-----------------------------------------------------------------------------
(* textwrap.dedent *)

RECURSIVE SplitLines(_)
SplitLines(t) ==
    IF \A i \in 1..Len(t) : t[i] # "\n" THEN <<t>>
    ELSE LET n == CHOOSE i \in 1..Len(t) :
                      t[i] = "\n" /\ \A j \in 1..(i - 1) : t[j] # "\n"
         IN <<SubSeq(t, 1, n - 1)>> \o SplitLines(SubSeq(t, n + 1, Len(t)))

RECURSIVE JoinLines(_)
JoinLines(ls) ==
    IF Len(ls) = 0 THEN <<>>
    ELSE IF Len(ls) = 1 THEN ls[1]
    ELSE ls[1] \o <<"\n">> \o JoinLines(Tail(ls))

WhitespaceOnly(line) == \A i \in 1..Len(line) : line[i] = " "

LeadingIndent(line) ==
    IF WhitespaceOnly(line) THEN Len(line)
    ELSE (CHOOSE i \in 1..Len(line) :
              line[i] # " " /\ \A j \in 1..(i - 1) : line[j] = " ") - 1

Min(S) == CHOOSE x \in S : \A y \in S : x <= y

dedent(text) ==
    LET raw == SplitLines(text)
        \* lines of blanks only are normalised to empty lines
        ls == [i \in 1..Len(raw) |->
                  IF WhitespaceOnly(raw[i]) THEN <<>> ELSE raw[i]]
        indents == {LeadingIndent(ls[i]) : i \in {j \in 1..Len(ls) : ls[j] # <<>>}}
        margin == IF indents = {} THEN 0 ELSE Min(indents)
    IN JoinLines([i \in 1..Len(ls) |->
                     IF ls[i] = <<>> THEN <<>>
                     ELSE SubSeq(ls[i], margin + 1, Len(ls[i]))])

-----------------------------------------------------------------------------
(* str.format *)

FormatError == <<"ValueError">>

\* One step of the format-string scan: the literal text up to the next
\* brace, then either an escaped brace or a replacement field {name}.
RECURSIVE FormatFrom(_, _, _)
FormatFrom(t, i, kw) ==
    IF \A j \in i..Len(t) : t[j] \notin {"{", "}"} THEN SubSeq(t, i, Len(t))
    ELSE
        LET b == CHOOSE j \in i..Len(t) :
                     /\ t[j] \in {"{", "}"}
                     /\ \A k \in i..(j - 1) : t[k] \notin {"{", "}"}
            literal == SubSeq(t, i, b - 1)
            escaped == b < Len(t) /\ t[b + 1] = t[b]
            field == /\ t[b] = "{"
                     /\ b + 2 <= Len(t)
                     /\ t[b + 2] = "}"
                     /\ t[b + 1] \in DOMAIN kw
            rest == IF escaped THEN FormatFrom(t, b + 2, kw)
                    ELSE FormatFrom(t, b + 3, kw)
        IN IF ~escaped /\ ~field THEN FormatError
           ELSE IF rest = FormatError THEN FormatError
           ELSE IF escaped THEN literal \o <<t[b]>> \o rest
           ELSE literal \o Str(kw[t[b + 1]]) \o rest

Format(t, kw) == FormatFrom(t, 1, kw)

-----------------------------------------------------------------------------
(* format_prompt *)

\* the template literal as written in the source, indentation included
TemplateLiteral == JoinLines(<<
    <<" ", "# System Prompt: AI Coding Prompt Generator [lines 16-93]">>,
    <<" ", " ", "* Suffix read-only files [line 94]">>,
    <<" ", "[lines 95-121]">>,
    <<>>,
    <<" ", "Output each prompt to a separate markdown file in the '",
      TaskPath, "[[feature-name]]", "' directory. [line 123]">>,
    <<>>,
    <<" ", "Generate a todo list containing all of the prompts in the '",
      TaskPath, "[[feature-name]]",
      "' directory. Output the todo list to a file in the '",
      TaskPath, "[[feature-name]]", "' directory named todo.md. Include:">>,
    <<" ", "[lines 126-175]">>,
    <<" ", " ", " ", " ">>,
    <<" ", SpecHeading>>,
    <<>>,
    <<" ", OpenFence>>,
    <<" ", "{", "spec", "}">>,
    <<" ", Fence>> >>)

ContextLiteral == JoinLines(<<
    <<>>,
    <<" ", " ">>,
    <<" ", " ", Heading>>,
    <<" ", " ">>,
    <<" ", " ", OpenFence>>,
    <<" ", " ", "{", "context", "}">>,
    <<" ", " ", Fence>> >>)

Template == dedent(TemplateLiteral)
ContextSection == dedent(ContextLiteral)

\* variant: the context section is appended unconditionally
ContextAlways(c) == TRUE

\* if context: -- the truth value of an optional str
ContextProvided(c) == ~c.none /\ Len(c.val) > 0

\* variant: the fields are substituted in two chained format calls, so the
\* second call scans the text the first one inserted
format_prompt_twopass(fname, sp, ctx) ==
    LET template == IF ContextProvided(ctx) THEN Template \o ContextSection
                    ELSE Template
        kw == [feature_name |-> Some(fname), spec |-> Some(sp), context |-> ctx]
        first == Format(template, kw)
    IN IF first = FormatError THEN FormatError ELSE Format(first, kw)

\* variant: an empty specification is rejected
format_prompt_nonempty(fname, sp, ctx) ==
    LET template == IF ContextProvided(ctx) THEN Template \o ContextSection
                    ELSE Template
    IN IF sp = <<>> THEN FormatError
       ELSE Format(template,
                   [feature_name |-> Some(fname), spec |-> Some(sp), context |-> ctx])

format_prompt(fname, sp, ctx) ==
    LET template == IF ContextProvided(ctx) THEN Template \o ContextSection
                    ELSE Template
    IN Format(template,
              [feature_name |-> Some(fname), spec |-> Some(sp), context |-> ctx])

-----------------------------------------------------------------------------
(* The command line, the file system and click's File parameters *)

Absent == "absent"          \* the option is not on the command line
Dash == "-"                 \* click.File: "-" stands for standard input
SpecPath == "spec.md"
CtxPath == "context.md"
Paths == {SpecPath, CtxPath}

NoFile == "None"            \* the parameter's value when the option is absent
Pending == "pending"        \* the parameter is not converted yet

\* one ANSI escape sequence (ESC [ parameters letter), as a single token
Ansi == "ESC[31m"

FileAlphabet == {"a", Ansi}
FileTexts == Texts(FileAlphabet, MaxFileLen)
FileStates ==
    {[kind |-> "file", content |-> t] : t \in FileTexts}
    \cup {[kind |-> k, content |-> <<>>] : k \in {"missing", "dir", "denied"}}

\* open(path) succeeds: the path names a readable regular file
Openable(path) == fs[path].kind = "file"

\* variant: the file is opened at its first read
LazyOpenOn == TRUE

\* click.File('r') opens at conversion time (lazy only for write modes)
LazyOpen == FALSE

\* variant: a path that cannot be opened is treated as an absent option
FileConvertLenient(arg) ==
    IF arg = Absent THEN [ok |-> TRUE, value |-> NoFile, opened |-> FALSE]
    ELSE IF arg = Dash THEN [ok |-> TRUE, value |-> Dash, opened |-> FALSE]
    ELSE [ok |-> TRUE, value |-> IF Openable(arg) THEN arg ELSE NoFile,
          opened |-> TRUE]

\* click.File.convert: None stays None, "-" is the standard input stream,
\* a path is opened; an OSError becomes a BadParameter usage error
FileConvert(arg) ==
    IF arg = Absent THEN [ok |-> TRUE, value |-> NoFile, opened |-> FALSE]
    ELSE IF arg = Dash THEN [ok |-> TRUE, value |-> Dash, opened |-> FALSE]
    ELSE IF LazyOpen THEN [ok |-> TRUE, value |-> arg, opened |-> FALSE]
    ELSE [ok |-> Openable(arg), value |-> arg, opened |-> TRUE]

UsageLine == "Usage: prompt-generator.py [OPTIONS] FEATURE_NAME"
SpecFileError == "Error: Invalid value for '--spec-file' / '-f'"
ContextFileError == "Error: Invalid value for '--context-file' / '-c'"
FileErrorMsg == "Error: Could not open file"
TracebackMsg == "Traceback (most recent call last)"
PromptMsg == "Enter feature specification (press Ctrl+D when finished):"
ErrorMessages == {UsageLine, SpecFileError, ContextFileError, FileErrorMsg,
                  TracebackMsg}

\* the help screen click.command() builds from main's docstring and the
\* help strings of the options
HelpBody == "Generate an AI coding prompt template [...] Options: -f, --spec-file FILENAME, -c, --context-file FILENAME, --help"
HelpScreen == <<UsageLine, "\n", "\n", HelpBody>>

\* click's strip_ansi: every ANSI escape sequence is removed
NotAnsi(t) == t # Ansi
StripAnsi(text) == SelectSeq(text, NotAnsi)

\* click.echo(message): the message and a newline; ANSI escape sequences
\* are removed when the stream is not a terminal
Echo(stream, message, isatty) ==
    stream \o (IF isatty THEN message ELSE StripAnsi(message)) \o <<"\n">>

\* click processes the options given on the command line in the order they
\* were given, then the absent ones in the order of their declaration
SpecFirst ==
    IF spec_arg # Absent /\ context_arg # Absent THEN order = "fc"
    ELSE spec_arg # Absent \/ context_arg = Absent

\* variant: the test looks at the content, not at the file object
FileSuppliedNonEmpty(f) ==
    IF f \in Paths THEN fs[f].content # <<>> ELSE f # NoFile

\* if spec_file: / if context_file: -- a file object is always true
FileSupplied(f) == f # NoFile

\* variant: err=True is left out
PromptToOut == FALSE

\* click.echo(..., err=True) on line 209
PromptToErr == TRUE

\* f.read() on a file object; "-" reads standard input up to the next
\* end-of-input: a read that follows an earlier end-of-input returns the
\* empty text on a pipe or a file and the next typed text on a terminal
IsStdin(f) == f = Dash
ReadFails(f) == ~IsStdin(f) /\ ~Openable(f)
StdinRead == IF stdin_consumed THEN stdin_more ELSE stdin_data
FileRead(f) == IF IsStdin(f) THEN StdinRead ELSE fs[f].content

Init ==
    /\ feature_name \in FeatureNames
    /\ spec_arg \in {Absent, Dash, SpecPath}
    /\ context_arg \in {Absent, Dash, CtxPath}
    /\ order \in {"fc", "cf"}
    /\ (spec_arg = Absent \/ context_arg = Absent) => order = "fc"
    /\ help_arg \in BOOLEAN
    /\ stdout_tty \in BOOLEAN
    /\ stderr_tty \in BOOLEAN
    /\ fs \in [Paths -> FileStates]
    \* a path no option names is never touched: it is left missing
    /\ spec_arg # SpecPath => fs[SpecPath].kind = "missing"
    /\ context_arg # CtxPath => fs[CtxPath].kind = "missing"
    /\ stdin_data \in FileTexts
    /\ stdin_more \in FileTexts
    /\ stdin_consumed = FALSE
    /\ spec_file = Pending /\ context_file = Pending
    /\ spec = None /\ context = None /\ prompt = None
    /\ stdout = <<>> /\ stderr = <<>> /\ exit_code = -1 /\ events = <<>>
    /\ pc = "parse"

\* line 196: --help, added by click.command(), is processed before every
\* other parameter: the help screen goes to standard output and the process
\* exits 0; no file is opened and main is not called
ShowHelp ==
    /\ pc = "parse"
    /\ help_arg
    /\ stdout' = Echo(stdout, HelpScreen, stdout_tty)
    /\ events' = Append(events, "echo help")
    /\ exit_code' = 0
    /\ pc' = "exited"
    /\ UNCHANGED <<feature_name, spec_arg, context_arg, order, help_arg,
                   stdout_tty, stderr_tty, fs, stdin_data, stdin_more,
                   stdin_consumed, spec_file, context_file, spec, context,
                   prompt, stderr>>

\* line 198: conversion of --spec-file by click before main is entered
ConvertSpecFile ==
    /\ pc = "parse"
    /\ ~help_arg
    /\ spec_file = Pending
    /\ SpecFirst \/ context_file # Pending
    /\ LET r == FileConvert(spec_arg)
       IN /\ events' = IF r.opened THEN Append(events, "open spec_file")
                       ELSE events
          /\ IF r.ok
             THEN /\ spec_file' = r.value
                  /\ UNCHANGED <<stderr, exit_code, pc>>
             ELSE /\ stderr' = Echo(Echo(stderr, <<UsageLine>>, stderr_tty),
                                   <<SpecFileError>>, stderr_tty)
                  /\ exit_code' = 2
                  /\ pc' = "exited"
                  /\ UNCHANGED spec_file
    /\ UNCHANGED <<feature_name, spec_arg, context_arg, order, help_arg,
                   stdout_tty, stderr_tty, fs, stdin_data, stdin_more,
                   stdin_consumed, context_file, spec, context, prompt, stdout>>

\* line 199: conversion of --context-file
ConvertContextFile ==
    /\ pc = "parse"
    /\ ~help_arg
    /\ context_file = Pending
    /\ ~SpecFirst \/ spec_file # Pending
    /\ LET r == FileConvert(context_arg)
       IN /\ events' = IF r.opened THEN Append(events, "open context_file")
                       ELSE events
          /\ IF r.ok
             THEN /\ context_file' = r.value
                  /\ UNCHANGED <<stderr, exit_code, pc>>
             ELSE /\ stderr' = Echo(Echo(stderr, <<UsageLine>>, stderr_tty),
                                   <<ContextFileError>>, stderr_tty)
                  /\ exit_code' = 2
                  /\ pc' = "exited"
                  /\ UNCHANGED context_file
    /\ UNCHANGED <<feature_name, spec_arg, context_arg, order, help_arg,
                   stdout_tty, stderr_tty, fs, stdin_data, stdin_more,
                   stdin_consumed, spec_file, spec, context, prompt, stdout>>

\* line 200: every parameter is converted, click calls main
Invoke ==
    /\ pc = "parse"
    /\ ~help_arg
    /\ spec_file # Pending /\ context_file # Pending
    /\ pc' = "l205"
    /\ UNCHANGED <<feature_name, spec_arg, context_arg, order, help_arg,
                   stdout_tty, stderr_tty, fs, stdin_data, stdin_more,
                   stdin_consumed, spec_file, context_file, spec, context,
                   prompt, stdout, stderr, exit_code, events>>

\* lines 205-206: spec = spec_file.read()
ReadSpecFile ==
    /\ pc = "l205"
    /\ FileSupplied(spec_file)
    /\ IF ReadFails(spec_file)
       THEN /\ stderr' = Echo(stderr, <<FileErrorMsg>>, stderr_tty)
            /\ exit_code' = 1
            /\ pc' = "exited"
            /\ events' = Append(events, "open spec_file")
            /\ UNCHANGED <<spec, stdin_consumed>>
       ELSE /\ spec' = Some(FileRead(spec_file))
            /\ stdin_consumed' = (stdin_consumed \/ IsStdin(spec_file))
            /\ events' = Append(events, IF IsStdin(spec_file) THEN "read stdin"
                                        ELSE "read spec_file")
            /\ pc' = "l213"
            /\ UNCHANGED <<stderr, exit_code>>
    /\ UNCHANGED <<feature_name, spec_arg, context_arg, order, help_arg,
                   stdout_tty, stderr_tty, fs, stdin_data, stdin_more,
                   spec_file, context_file, context, prompt, stdout>>

\* lines 207-209: no spec file, the prompt for standard input is written
EchoEnterSpec ==
    /\ pc = "l205"
    /\ ~FileSupplied(spec_file)
    /\ IF PromptToErr
       THEN stderr' = Echo(stderr, <<PromptMsg>>, stderr_tty) /\ UNCHANGED stdout
       ELSE stdout' = Echo(stdout, <<PromptMsg>>, stdout_tty) /\ UNCHANGED stderr
    /\ events' = Append(events, "echo prompt")
    /\ pc' = "l210"
    /\ UNCHANGED <<feature_name, spec_arg, context_arg, order, help_arg,
                   stdout_tty, stderr_tty, fs, stdin_data, stdin_more,
                   stdin_consumed, spec_file, context_file, spec, context,
                   prompt, exit_code>>

\* line 210: spec = sys.stdin.read()
ReadStdin ==
    /\ pc = "l210"
    /\ spec' = Some(StdinRead)
    /\ stdin_consumed' = TRUE
    /\ events' = Append(events, "read stdin")
    /\ pc' = "l213"
    /\ UNCHANGED <<feature_name, spec_arg, context_arg, order, help_arg,
                   stdout_tty, stderr_tty, fs, stdin_data, stdin_more,
                   spec_file, context_file, context, prompt, stdout, stderr,
                   exit_code>>

\* lines 213-215: context = None; if context_file: context = context_file.read()
ReadContext ==
    /\ pc = "l213"
    /\ IF ~FileSupplied(context_file)
       THEN /\ context' = None
            /\ pc' = "l217"
            /\ UNCHANGED <<stdin_consumed, events, stderr, exit_code>>
       ELSE IF ReadFails(context_file)
       THEN /\ stderr' = Echo(stderr, <<FileErrorMsg>>, stderr_tty)
            /\ exit_code' = 1
            /\ pc' = "exited"
            /\ events' = Append(events, "open context_file")
            /\ UNCHANGED <<context, stdin_consumed>>
       ELSE /\ context' = Some(FileRead(context_file))
            /\ stdin_consumed' = (stdin_consumed \/ IsStdin(context_file))
            /\ events' = Append(events, IF IsStdin(context_file) THEN "read stdin"
                                        ELSE "read context_file")
            /\ pc' = "l217"
            /\ UNCHANGED <<stderr, exit_code>>
    /\ UNCHANGED <<feature_name, spec_arg, context_arg, order, help_arg,
                   stdout_tty, stderr_tty, fs, stdin_data, stdin_more,
                   spec_file, context_file, spec, prompt, stdout>>

\* line 217: prompt = format_prompt(feature_name, spec, context); an
\* exception of str.format ends the run with a traceback
CallFormatPrompt ==
    /\ pc = "l217"
    /\ LET result == format_prompt(feature_name, spec.val, context)
       IN IF result = FormatError
          THEN /\ stderr' = Echo(stderr, <<TracebackMsg>>, stderr_tty)
               /\ exit_code' = 1
               /\ pc' = "exited"
               /\ UNCHANGED prompt
          ELSE /\ prompt' = Some(result)
               /\ pc' = "l218"
               /\ UNCHANGED <<stderr, exit_code>>
    /\ UNCHANGED <<feature_name, spec_arg, context_arg, order, help_arg,
                   stdout_tty, stderr_tty, fs, stdin_data, stdin_more,
                   stdin_consumed, spec_file, context_file, spec, context,
                   stdout, events>>

\* line 218: click.echo(prompt), then main returns and the process exits 0
EchoPrompt ==
    /\ pc = "l218"
    /\ stdout' = Echo(stdout, prompt.val, stdout_tty)
    /\ events' = Append(events, "echo document")
    /\ exit_code' = 0
    /\ pc' = "exited"
    /\ UNCHANGED <<feature_name, spec_arg, context_arg, order, help_arg,
                   stdout_tty, stderr_tty, fs, stdin_data, stdin_more,
                   stdin_consumed, spec_file, context_file, spec, context,
                   prompt, stderr>>

Next ==
    \/ ShowHelp
    \/ ConvertSpecFile
    \/ ConvertContextFile
    \/ Invoke
    \/ ReadSpecFile
    \/ EchoEnterSpec
    \/ ReadStdin
    \/ ReadContext
    \/ CallFormatPrompt
    \/ EchoPrompt

Spec == Init /\ [][Next]_vars

-----------------------------------------------------------------------------
(* Rendering alone: format_prompt applied to every bounded argument triple *)

FmtInit ==
    /\ feature_name \in FeatureNames
    /\ \E s \in SpecTexts : spec = Some(s)
    /\ context \in {None} \cup {Some(c) : c \in CtxTexts}
    /\ prompt = None
    /\ pc = "call"
    /\ spec_arg = Absent /\ context_arg = Absent /\ order = "fc"
    /\ help_arg = FALSE /\ stdout_tty = FALSE /\ stderr_tty = FALSE
    /\ fs = [p \in Paths |-> [kind |-> "missing", content |-> <<>>]]
    /\ stdin_data = <<>> /\ stdin_more = <<>> /\ stdin_consumed = FALSE
    /\ spec_file = NoFile /\ context_file = NoFile
    /\ stdout = <<>> /\ stderr = <<>> /\ exit_code = -1 /\ events = <<>>

FormatPromptCall ==
    /\ pc = "call"
    /\ prompt' = Some(format_prompt(feature_name, spec.val, context))
    /\ pc' = "returned"
    /\ UNCHANGED <<feature_name, spec_arg, context_arg, order, help_arg,
                   stdout_tty, stderr_tty, fs, stdin_data, stdin_more,
                   stdin_consumed, spec_file, context_file, spec, context,
                   stdout, stderr, exit_code, events>>

FmtNext == FormatPromptCall

FmtSpec == FmtInit /\ [][FmtNext]_vars

-----------------------------------------------------------------------------
(* Properties *)

Range(f) == {f[i] : i \in DOMAIN f}
Count(tok, text) == Cardinality({i \in DOMAIN text : text[i] = tok})
OccursAt(text, i, sub) ==
    i >= 1 /\ i + Len(sub) - 1 <= Len(text) /\ SubSeq(text, i, i + Len(sub) - 1) = sub
Contains(text, sub) == \E i \in 1..(Len(text) + 1) : OccursAt(text, i, sub)
EndsWith(text, sub) == OccursAt(text, Len(text) - Len(sub) + 1, sub)

Returned == pc = "returned"
StdinWasRead == "read stdin" \in Range(events)
Unopenable(arg) == arg \in Paths /\ ~Openable(arg)

\* the specification section and the context section as the documents show them
SpecBlock(sp) ==
    <<SpecHeading, "\n", "\n", OpenFence, "\n">> \o sp \o <<"\n", Fence>>
ContextBlock(c) ==
    <<"\n", "\n", Heading, "\n", "\n", OpenFence, "\n">> \o c \o <<"\n", Fence>>
HasContextHeadingLine(text) == Contains(text, <<"\n", "\n", Heading, "\n">>)

\* C1: every reference to the task path in the output of format_prompt reads
\* specs/tasks/<feature_name> with the supplied feature_name.
C1_PathUsesFeatureName ==
    Returned =>
        \A i \in DOMAIN prompt.val :
            prompt.val[i] = TaskPath =>
                OccursAt(prompt.val, i + 1, feature_name)

\* C2: format_prompt appends the context section (heading, context_text in its
\* own fenced block, after the specification section) exactly when context_text
\* is non-null, the empty text included.
C2_ContextSectionIffNonNull ==
    Returned =>
        IF context.none THEN ~HasContextHeadingLine(prompt.val)
        ELSE EndsWith(prompt.val, SpecBlock(spec.val) \o ContextBlock(context.val))

\* C3 as stated: with a null context_text the output of format_prompt holds no
\* occurrence of the context section heading, whatever spec_text is.
C3_NoHeadingWhenNull ==
    (Returned /\ context.none) => Count(Heading, prompt.val) = 0

\* C3 amended: with a null context_text the output of format_prompt holds no
\* occurrence of the context section heading other than those inside spec_text
\* itself (none when spec_text does not contain the heading), and no context
\* section follows the specification block.
C3_NoHeadingButSpecText ==
    (Returned /\ context.none) =>
        /\ Count(Heading, prompt.val) = Count(Heading, spec.val)
        /\ EndsWith(prompt.val, SpecBlock(spec.val))

C3_Witness ==
    /\ Returned /\ context.none
    /\ Len(spec.val) = MaxSpecLen
    /\ Count(Heading, spec.val) = 0
    /\ Count(Heading, prompt.val) = 0

\* C4: the output of format_prompt holds, under the specification heading, the
\* opening fence line, spec_text unmodified and contiguous, and the closing
\* fence line; braces and field names inside spec_text are not expanded.
C4_SpecTextVerbatim ==
    Returned =>
        /\ Count(SpecHeading, prompt.val) = 1
        /\ \E i \in DOMAIN prompt.val :
              /\ OccursAt(prompt.val, i, SpecBlock(spec.val))
              /\ \/ i + Len(SpecBlock(spec.val)) - 1 = Len(prompt.val)
                 \/ OccursAt(prompt.val, i + Len(SpecBlock(spec.val)),
                             <<"\n", "\n", Heading>>)

C4_Witness ==
    /\ Returned
    /\ spec.val = <<"{", "context", "}">>
    /\ ~context.none /\ context.val = <<Fence>>
    /\ Contains(prompt.val, SpecBlock(<<"{", "context", "}">>))

\* C5 as stated: when --spec-file is supplied (any accepted value) standard
\* input is never read; when it is omitted the spec text is everything read
\* from standard input.
C5_SuppliedNeverReadsStdin ==
    /\ spec_arg # Absent => ~StdinWasRead
    /\ (spec_arg = Absent /\ ~spec.none) => spec.val = stdin_data

\* C5 amended: when --spec-file is supplied with a value other than "-" and
\* --context-file is not "-", standard input is never read ("-" names standard
\* input itself: -f - takes the spec text from it without a prompt); when
\* --spec-file is omitted the spec text is everything read from standard input
\* until end-of-stream.
C5_PathNeverReadsStdin ==
    /\ (spec_arg \in Paths /\ context_arg # Dash) =>
          ~StdinWasRead /\ ~stdin_consumed
    /\ (spec_arg = Dash /\ ~spec.none) =>
          spec.val = stdin_data /\ PromptMsg \notin Range(stderr)
    /\ (spec_arg = Absent /\ ~spec.none) =>
          spec.val = stdin_data /\ stdin_consumed
    /\ (context_arg = Dash /\ ~context.none) =>
          context.val = IF spec_arg \in Paths THEN stdin_data ELSE stdin_more

C5_Witness ==
    /\ pc = "exited" /\ exit_code = 0
    /\ spec_arg = SpecPath /\ fs[SpecPath].content = <<>>
    /\ context_arg = CtxPath
    /\ stdin_data # <<>>
    /\ ~spec.none /\ ~context.none
    /\ ~StdinWasRead

\* what click.echo(prompt) puts on standard output for a rendered document
Echoed(document) == Echo(<<>>, document, stdout_tty)

OpenFailed ==
    \/ "open spec_file" \in Range(events) /\ Unopenable(spec_arg)
    \/ "open context_file" \in Range(events) /\ Unopenable(context_arg)

\* C6 as stated: in every run standard output holds nothing or exactly the
\* rendered document and one newline; the prompt and the error messages go to
\* the error stream only; the prompt is written only when --spec-file is
\* omitted, before standard input is read.
C6_StreamSeparation ==
    /\ \/ stdout = <<>>
       \/ /\ ~spec.none
          /\ stdout = format_prompt(feature_name, spec.val, context) \o <<"\n">>
    /\ Range(stdout) \cap (ErrorMessages \cup {PromptMsg}) = {}
    /\ PromptMsg \in Range(stderr) => spec_arg = Absent
    /\ "echo prompt" \in Range(events) => PromptMsg \in Range(stderr)
    /\ \A i \in DOMAIN events :
          (events[i] = "read stdin" /\ spec_arg = Absent) =>
              \E j \in 1..(i - 1) : events[j] = "echo prompt"
    /\ pc = "l210" => PromptMsg \in Range(stderr)

\* C6 amended: in a run without --help standard output holds nothing or the
\* rendered document and one newline, the document exactly as rendered when
\* standard output is a terminal and with its ANSI escape sequences removed
\* when it is not; with --help it holds nothing or click's help screen, and
\* nothing is written to the error stream.  The prompt and the error messages
\* of a failed run go to the error stream only; the prompt is written only
\* when --spec-file is omitted, before standard input is read.
C6_StreamSeparationNoHelp ==
    /\ ~help_arg =>
          /\ \/ stdout = <<>>
             \/ /\ ~spec.none
                /\ stdout = Echoed(format_prompt(feature_name, spec.val, context))
                /\ stdout_tty =>
                      stdout = format_prompt(feature_name, spec.val, context)
                                   \o <<"\n">>
          /\ Range(stdout) \cap (ErrorMessages \cup {PromptMsg}) = {}
    /\ help_arg =>
          /\ stdout \in {<<>>, HelpScreen \o <<"\n">>}
          /\ stderr = <<>>
          /\ pc \in {"parse", "exited"}
    /\ PromptMsg \notin Range(stdout)
    /\ Range(stdout) \cap (ErrorMessages \ {UsageLine}) = {}
    /\ PromptMsg \in Range(stderr) => spec_arg = Absent
    /\ "echo prompt" \in Range(events) => PromptMsg \in Range(stderr)
    /\ \A i \in DOMAIN events :
          (events[i] = "read stdin" /\ spec_arg = Absent) =>
              \E j \in 1..(i - 1) : events[j] = "echo prompt"
    /\ pc = "l210" => PromptMsg \in Range(stderr)

C6_Witness ==
    /\ pc = "exited" /\ exit_code = 0
    /\ ~help_arg /\ ~stdout_tty
    /\ spec_arg = Absent
    /\ stderr = <<PromptMsg, "\n">>
    /\ stdin_data = <<Ansi>>
    /\ stdout = StripAnsi(prompt.val) \o <<"\n">>
    /\ stdout # prompt.val \o <<"\n">>

C9_EmptySpecAccepted ==
    /\ (pc = "exited" /\ ~spec.none /\ spec.val = <<>>) =>
          /\ exit_code = 0
          /\ stdout = Echoed(format_prompt(feature_name, <<>>, context))
          /\ EndsWith(stdout, <<"\n">>)
          /\ Contains(stdout, <<SpecHeading, "\n", "\n", OpenFence, "\n", "\n", Fence>>)
    /\ (~spec.none /\ spec.val = <<>>) => pc \in {"l213", "l217", "l218", "exited"}
    /\ (spec_arg = SpecPath /\ fs[SpecPath] = [kind |-> "file", content |-> <<>>]) =>
          /\ PromptMsg \notin Range(stderr)
          /\ context_arg # Dash => ~StdinWasRead
          /\ pc \in {"l213", "l217", "l218"} => spec = Some(<<>>)

C9_Witness ==
    /\ pc = "exited" /\ exit_code = 0
    /\ spec_arg = SpecPath /\ fs[SpecPath] = [kind |-> "file", content |-> <<>>]
    /\ stdin_data # <<>>
    /\ spec = Some(<<>>)
    /\ ~StdinWasRead
    /\ stdout # <<>>

\* C10: a file that cannot be opened ends the run before any other input step:
\* with --spec-file omitted and an unopenable --context-file the prompt is never
\* written and standard input is never read; with an unopenable --spec-file the
\* context file is never read.
C10_OpenFailureFirst ==
    /\ (spec_arg = Absent /\ Unopenable(context_arg)) =>
          /\ PromptMsg \notin Range(stderr) \cup Range(stdout)
          /\ ~StdinWasRead /\ ~stdin_consumed
          /\ spec.none
    /\ Unopenable(spec_arg) =>
          /\ "read context_file" \notin Range(events)
          /\ ~StdinWasRead
          /\ context.none /\ spec.none

C10_Witness ==
    /\ pc = "exited" /\ exit_code = 2
    /\ spec_arg = Absent
    /\ Unopenable(context_arg)
    /\ stdin_data # <<>>
    /\ events = <<"open context_file">>

====
